---------------------------- MODULE Spec2Model ----------------------------
(***************************************************************************)
(* The versioned release installer of zyngInstaller.py: one Installer run  *)
(* (install, rollback or uninstall) against the on-disk version store      *)
(*     installRoot/<app>-<version>/        version directories             *)
(*     installRoot/<app>-current           symbolic pointer                *)
(*     installRoot/archives/<name>/        retired version directories     *)
(* File names are sequences of the tokens that "-" joins, so that the glob *)
(* "<app>-*" is a prefix test on tokens.  A directory tree is a record of  *)
(* the install that produced it (c), its mtime (mt), the directories that  *)
(* shutil.move nested inside it (kids), whether a venv was created in it   *)
(* (venv) and whether it is a partial copy (part).                         *)
(***************************************************************************)
EXTENDS Integers, Sequences, FiniteSets, TLC

\* ------------------------------------------------------------ bounds
MaxRuns == 3        \* installer runs per behaviour
MaxTime == 1        \* the clock (seconds) runs over 0..MaxTime
MaxFaults == 1      \* failing system calls injected per behaviour
MaxLen == 3         \* bytes in an artifact
ChunkSize == 2      \* bytes per f.read() of sha256sum (8192 in the source)
MaxAssets == 2      \* assets in a release

\* ------------------------------------------------------------ names
\* installer processes; Main is the one that runs when runs follow one another
Procs == {1, 2}
Main == {1}
\* two apps that can share one install root (--install-root), the name of one
\* a prefix of the other's
Apps == {<<"foo">>, <<"foo", "bar">>}
Versions == {"1.0", "2.0"}
KeepDefault == 3

TsNames == <<"t0", "t1", "t2", "t3", "t4", "t5">>
\* time.strftime("%Y%m%d%H%M%S"): one token per second
TsTok(t) == TsNames[t + 1]

\* self.versioned_dir = install_root / f"{appname}-{version}"
VersionedDir(app, ver) == app \o <<ver>>
\* archives_dir / f"{appname}-{version}-{ts}"
ArchiveTarget(app, ver, t) == app \o <<ver, TsTok(t)>>
\* archives_dir / f"{curr.name}-failed-{ts}"
FailedTarget(name, t) == name \o <<"failed", TsTok(t)>>
\* archives_dir.glob(f"{appname}-*")
GlobMatch(app, name) ==
    /\ Len(name) > Len(app)
    /\ SubSeq(name, 1, Len(app)) = app

\* a symbolic link's target: a path below installRoot, or no link at all
NoLink == [d |-> "none", n |-> <<>>]
RootPath(name) == [d |-> "root", n |-> name]
ArchivePath(name) == [d |-> "archives", n |-> name]

\* ------------------------------------------------------------ trees
NoKids == <<>>
NoTree == [c |-> 0, mt |-> 0, kids |-> NoKids, venv |-> FALSE, part |-> FALSE]
NewTree(c, mt) == [c |-> c, mt |-> mt, kids |-> NoKids, venv |-> FALSE, part |-> FALSE]

Remove(dir, name) == [x \in (DOMAIN dir) \ {name} |-> dir[x]]
Put(dir, name, t) == [x \in (DOMAIN dir) \cup {name} |-> IF x = name THEN t ELSE dir[x]]

RECURSIVE Contents(_)
\* what a directory tree holds, at any depth: the installs whose trees are in it
Contents(t) ==
    {[c |-> t.c, venv |-> t.venv, part |-> t.part]}
        \cup UNION {Contents(t.kids[k]) : k \in DOMAIN t.kids}
DirContents(dir) == UNION {Contents(dir[k]) : k \in DOMAIN dir}

VARIABLES
    vdirs,      \* installRoot: name -> tree of each version directory
    archives,   \* installRoot/archives: name -> tree of each entry
    current,    \* app -> target of installRoot/<app>-current, or NoLink
    clock,      \* wall clock, in seconds
    run,        \* proc -> the Installer run it executes
    nruns,      \* runs started so far
    faults      \* failing system calls injected so far

vars == <<vdirs, archives, current, clock, run, nruns, faults>>
store == <<vdirs, archives, current>>

Snapshot == [vdirs |-> vdirs, archives |-> archives, current |-> current]
EmptyStore == [vdirs |-> <<>>, archives |-> <<>>, current |-> [a \in Apps |-> NoLink]]

\* Path.exists() of a path below installRoot
PathExists(p) ==
    \/ p.d = "root" /\ p.n \in DOMAIN vdirs
    \/ p.d = "archives" /\ p.n \in DOMAIN archives
TreeAt(p) == IF p.d = "root" THEN vdirs[p.n] ELSE archives[p.n]
\* current_symlink.is_symlink()
IsSymlink(app) == current[app] # NoLink
\* current_symlink.exists(): follows the link
LinkExists(app) == IsSymlink(app) /\ PathExists(current[app])

NoArgs == [auto |-> FALSE, keep |-> KeepDefault, remove_all |-> FALSE]
\* two artifacts that differ in one byte
Good == <<0, 1>>
Evil == <<1, 1>>
\* what an archive file unpacks to: its format as zipfile and tarfile sniff it
\* and its top-level entries, each a file or a directory with entries of its
\* own (kids)
RequiredDirs == <<"src", "data">>
TopNames == {"app", "src", "data", "__MACOSX"}
File == [dir |-> FALSE, kids |-> {}]
Dir(kids) == [dir |-> TRUE, kids |-> kids]
\* req: the root holds a requirements.txt
GoodArchive ==
    [fmt |-> "zip", top |-> [n \in {"app"} |-> Dir({"src", "data"})], req |-> TRUE]

\* release assets: a file name is the sequence of its dot-separated parts
ZipAsset == <<"app", "zip">>
\* a["name"].lower()
LowerPart(t) ==
    CASE t = "ZIP" -> "zip"
      [] t = "TGZ" -> "tgz"
      [] OTHER -> t
LowerName(name) == [i \in 1..Len(name) |-> LowerPart(name[i])]
\* name.endswith("." + ext)
EndsWith(name, ext) ==
    /\ Len(name) > Len(ext)
    /\ SubSeq(name, Len(name) - Len(ext) + 1, Len(name)) = ext
\* (".zip", ".tar.gz", ".tgz", ".tar.xz")
ArchiveExtensions == {<<"zip">>, <<"tar", "gz">>, <<"tgz">>, <<"tar", "xz">>}
Installable(name) == \E e \in ArchiveExtensions : EndsWith(LowerName(name), e)
\* the position of the asset the loop breaks at, 0 when it runs to its end
PickAsset(assets) ==
    LET M == {i \in 1..Len(assets) : Installable(assets[i])}
    IN IF M = {} THEN 0 ELSE CHOOSE i \in M : \A j \in M : i <= j

NoSrc == [stype |-> "archive", sha |-> <<>>, gpg |-> "none", bytes |-> Good,
          found |-> TRUE, assets |-> <<ZipAsset>>, ar |-> GoodArchive]
\* the install root a run computes its paths from: the manifest's default,
\* the --install-root option, or the path typed at the prompt
NoPaths == [versioned_dir |-> "", current_symlink |-> "", archives_dir |-> ""]
InitRoot(opt) == IF opt THEN "option" ELSE "default"
PathsUnder(r) == [versioned_dir |-> r, current_symlink |-> r, archives_dir |-> r]

IdleRun ==
    [mode |-> "none", pc |-> "idle", app |-> <<>>, ver |-> "", args |-> NoArgs,
     src |-> NoSrc, sv |-> FALSE, c |-> 0, tree |-> NoTree, root |-> <<>>,
     scratch |-> FALSE, asset |-> 0,
     keys |-> {}, tmpdir |-> FALSE, ensured |-> {}, warned |-> FALSE,
     install_root |-> "", paths |-> NoPaths, alone |-> TRUE,
     listing |-> <<>>, choice |-> 0, target |-> <<>>,
     err |-> "", at |-> "", pre |-> EmptyStore]

Init ==
    /\ vdirs = <<>>
    /\ archives = <<>>
    /\ current = [a \in Apps |-> NoLink]
    /\ clock = 0
    /\ run = [p \in Procs |-> IdleRun]
    /\ nruns = 0
    /\ faults = 0

\* ------------------------------------------------------------ helpers
Active(p) == run[p].pc \notin {"idle", "done", "failed"}
Terminated(p) == run[p].pc \in {"done", "failed"}

\* raise SystemExit(...) or an uncaught exception: the run ends where it is
Abort(p, at, err) ==
    run' = [run EXCEPT ![p].pc = "failed", ![p].at = at, ![p].err = err]
Goto(p, pc) == run' = [run EXCEPT ![p].pc = pc]

\* a system call fails (OSError): the environment's choice, bounded
Fault == faults < MaxFaults /\ faults' = faults + 1

\* an artifact is a sequence of bytes; a hex string a sequence of characters
Bytes == {0, 1}
Files == UNION {[1..n -> Bytes] : n \in 0..MaxLen}
HexOf == <<"a", "b">>
LenDigits == <<"0", "1", "2", "3", "4", "5", "6", "7", "8", "9">>

\* hashlib.sha256: update() absorbs a chunk, hexdigest() prints the state in
\* lower-case hex.  The hash is taken to be collision-free: the state is the
\* bytes absorbed, printed as their count and one hex letter per byte
HashUpdate(h, chunk) == h \o chunk
HexDigest(h) == <<LenDigits[Len(h) + 1]>> \o [i \in 1..Len(h) |-> HexOf[h[i] + 1]]

RECURSIVE ReadChunks(_, _, _)
\* for chunk in iter(lambda: f.read(8192), b""): h.update(chunk)
ReadChunks(f, pos, h) ==
    LET last == IF pos + ChunkSize < Len(f) THEN pos + ChunkSize ELSE Len(f)
        chunk == SubSeq(f, pos + 1, last)
    IN IF chunk = <<>> THEN h
       ELSE ReadChunks(f, last, HashUpdate(h, chunk))

\* sha256sum(path): the hex digest of the whole file, read chunk by chunk
Sha256sum(bytes) == HexDigest(ReadChunks(bytes, 0, <<>>))

\* str.lower() and str.upper(), character by character
LowerChar(ch) == CASE ch = "A" -> "a" [] ch = "B" -> "b" [] OTHER -> ch
UpperChar(ch) == CASE ch = "a" -> "A" [] ch = "b" -> "B" [] OTHER -> ch
Lower(s) == [i \in 1..Len(s) |-> LowerChar(s[i])]
Upper(s) == [i \in 1..Len(s) |-> UpperChar(s[i])]

\* the comparison of the digests without lower()
ShaMismatchCaseSensitive(src) ==
    /\ src.sha # <<>>
    /\ Sha256sum(src.bytes) # src.sha

\* prepare_source: expected_sha and actual.lower() != expected_sha.lower()
ShaMismatch(src) ==
    /\ src.sha # <<>>
    /\ Lower(Sha256sum(src.bytes)) # Lower(src.sha)

\* shutil.move(src, dst) of the directory t with basename base, dst a name in
\* the directory listing dir: an existing dst takes the directory inside it
\* (and refuses when dst/base exists), a free dst is a rename
ShutilMove(dir, base, t, dst) ==
    IF dst \in DOMAIN dir
    THEN IF base \in DOMAIN dir[dst].kids
         THEN [ok |-> FALSE, dir |-> dir]
         ELSE [ok |-> TRUE,
               dir |-> [dir EXCEPT ![dst].kids = Put(@, base, t), ![dst].mt = clock]]
    ELSE [ok |-> TRUE, dir |-> Put(dir, dst, t)]

\* sorted(archives_dir.glob(f"{appname}-*"), key=os.path.getmtime, reverse=True):
\* every order of the matching entries with mtimes descending (glob's own
\* order, which breaks the ties, is the file system's)
Matching(app) == {n \in DOMAIN archives : GlobMatch(app, n)}
SortedArchives(app) ==
    LET names == Matching(app)
        k == Cardinality(names)
    IN {s \in [1..k -> names] :
            /\ \A i, j \in 1..k : i # j => s[i] # s[j]
            /\ \A i \in 1..k : \A j \in 1..k :
                   i < j => archives[s[i]].mt >= archives[s[j]].mt}

\* a Python list index: negative indices count from the end
PyIndex(s, i) == IF i < 0 THEN s[Len(s) + i + 1] ELSE s[i + 1]
\* a Python slice s[k:]
PySliceFrom(s, k) ==
    LET from == IF k < 0 THEN (IF Len(s) + k < 0 THEN 0 ELSE Len(s) + k) ELSE k
    IN {s[i] : i \in (from + 1)..Len(s)}

\* ------------------------------------------------------------ main, __init__
\* the keys load_config requires, in the order it looks for them
RequiredKeys == <<"name", "version", "source">>
Manifests == SUBSET {RequiredKeys[i] : i \in 1..Len(RequiredKeys)}

\* a load_config that looks for the name only
LoadConfigNameOnly(keys) == IF "name" \in keys THEN "" ELSE "name"

\* load_config: the first required key the manifest lacks, or ""
LoadConfig(keys) ==
    IF \A i \in 1..Len(RequiredKeys) : RequiredKeys[i] \in keys THEN ""
    ELSE RequiredKeys[CHOOSE i \in 1..Len(RequiredKeys) :
                         /\ RequiredKeys[i] \notin keys
                         /\ \A j \in 1..(i - 1) : RequiredKeys[j] \in keys]

\* main() up to the dispatch: Installer.__init__ loads the manifest, then makes
\* the scratch directory, the install root, archives/ and ~/.local/bin, and
\* the mode is chosen; a manifest without a required key ends the run first
Launch(p, mode, app, ver, opt, yes, custom) ==
    /\ ~Active(p)
    /\ nruns < MaxRuns
    /\ nruns' = nruns + 1
    /\ \E keys \in Manifests :
          run' = [run EXCEPT ![p] =
                    IF LoadConfig(keys) # ""
                    THEN [IdleRun EXCEPT !.keys = keys, !.c = nruns + 1,
                                         !.pre = Snapshot, !.pc = "failed",
                                         !.at = "config",
                                         !.err = "Missing required config key"]
                    ELSE [IdleRun EXCEPT !.mode = mode, !.app = app, !.ver = ver,
                                         !.keys = keys,
                                         !.c = nruns + 1, !.tmpdir = TRUE,
                                         !.paths = PathsUnder(InitRoot(opt)),
                                         !.alone = \A q \in Procs : ~Active(q),
                                         !.install_root =
                                             IF mode = "install" /\ ~yes /\ custom
                                             THEN "typed" ELSE InitRoot(opt),
                                         !.ensured =
                                             {"install_root", "archives", "local_bin"}
                                             \cup IF mode = "install" /\ ~yes /\ custom
                                                  THEN {"typed_root"} ELSE {},
                                         !.pre = Snapshot,
                                         !.pc = CASE mode = "install" -> "prepare"
                                                  [] mode = "rollback" -> "rb_select"
                                                  [] OTHER -> "uninstall"]]
    /\ UNCHANGED <<vdirs, archives, current, clock, faults>>

\* a run started with --yes and the manifest's default install root
Start(p, mode, app, ver) == Launch(p, mode, app, ver, FALSE, TRUE, FALSE)

\* ------------------------------------------------------------ install
\* extract_dir = self.tmpdir / "src", as a path below tmpdir
ExtractDir == <<"src">>
Basename(path) == <<path[Len(path)]>>

\* entries = [p for p in extract_dir.iterdir() if p.name != "__MACOSX"]
Entries(ar) == {n \in DOMAIN ar.top : n # "__MACOSX"}

\* the root taken whenever the archive has one top-level directory, whatever
\* else lies beside it
SourceRootAnyDir(ar) ==
    IF \E n \in Entries(ar) : ar.top[n].dir
    THEN ExtractDir \o <<CHOOSE n \in Entries(ar) : ar.top[n].dir>>
    ELSE ExtractDir

\* root = entries[0] if len(entries) == 1 and entries[0].is_dir() else extract_dir
SourceRoot(ar) ==
    IF Cardinality(Entries(ar)) = 1 /\ (\A n \in Entries(ar) : ar.top[n].dir)
    THEN ExtractDir \o <<CHOOSE n \in Entries(ar) : TRUE>>
    ELSE ExtractDir

\* (root / r).exists()
RootHas(ar, root, r) ==
    IF root = ExtractDir THEN r \in DOMAIN ar.top
    ELSE r \in ar.top[root[Len(root)]].kids

\* validate_app_structure: the first of src, data that the root lacks, or ""
ValidateAppStructure(ar, root) ==
    IF \A i \in 1..Len(RequiredDirs) : RootHas(ar, root, RequiredDirs[i]) THEN ""
    ELSE RequiredDirs[CHOOSE i \in 1..Len(RequiredDirs) :
                         /\ ~RootHas(ar, root, RequiredDirs[i])
                         /\ \A j \in 1..(i - 1) : RootHas(ar, root, RequiredDirs[j])]

\* raise SystemExit(f"Invalid app structure: missing {r}/")
InvalidLayout(r) ==
    CASE r = "src" -> "Invalid app structure: missing src/"
      [] r = "data" -> "Invalid app structure: missing data/"
      [] OTHER -> ""

\* where prepare_source stops, in the order of its statements: unknown source
\* type, nothing to fetch (no installable asset, no local file), checksum
\* (url and archive sources only), archive format, layout
PrepareOutcome(src) ==
    CASE src.stype \notin {"git", "url", "archive"} ->
             [at |-> "source", err |-> "Unknown source type"]
      [] src.stype = "git" /\ src.assets = <<>> ->
             [at |-> "fetch", err |-> "No assets found in the latest GitHub release."]
      [] src.stype = "git" /\ PickAsset(src.assets) = 0 ->
             [at |-> "fetch", err |-> "No installable archive asset found in the latest release."]
      [] src.stype \in {"url", "archive"} /\ ~src.found ->
             [at |-> "fetch", err |-> "Source not found"]
      [] src.stype \in {"url", "archive"} /\ src.found /\ ShaMismatch(src) ->
             [at |-> "verify", err |-> "SHA256 mismatch"]
      [] src.ar.fmt \notin {"zip", "tar"} ->
             [at |-> "extract", err |-> "Unknown archive format"]
      [] ValidateAppStructure(src.ar, SourceRoot(src.ar)) # "" ->
             [at |-> "validate",
              err |-> InvalidLayout(ValidateAppStructure(src.ar, SourceRoot(src.ar)))]
      [] OTHER -> [at |-> "", err |-> ""]

\* extraction that unpacks straight into the version directory
ExtractTargetInPlace(p, src, mt) ==
    Put(vdirs, VersionedDir(run[p].app, run[p].ver), NewTree(run[p].c, mt))

\* installRoot after z.extractall(path=extract_dir): the archive is unpacked
\* below tmpdir, the version directories stay as they are
ExtractTarget(p, src, mt) == vdirs

\* prepare_source: fetch, verify the checksum (url and archive sources only),
\* extract into tmpdir/src, find the root, validate the layout
PrepareSource(p, src, mt) ==
    LET out == PrepareOutcome(src)
    IN /\ run[p].pc = "prepare"
       /\ \/ /\ Fault
             /\ run' = [run EXCEPT ![p].pc = "failed", ![p].at = "fetch",
                                   ![p].err = "FetchError", ![p].src = src]
             /\ UNCHANGED vdirs
          \/ /\ out.at # ""
             /\ run' = [run EXCEPT ![p].pc = "failed", ![p].at = out.at,
                                   ![p].err = out.err, ![p].src = src,
                                   ![p].root = IF out.at = "validate"
                                               THEN SourceRoot(src.ar) ELSE <<>>]
             /\ vdirs' = IF out.at = "validate" THEN ExtractTarget(p, src, mt)
                         ELSE vdirs
             /\ UNCHANGED faults
          \/ /\ out.at = ""
             /\ run' = [run EXCEPT ![p].pc = "archive_old", ![p].src = src,
                                   ![p].tree = NewTree(run[p].c, mt),
                                   ![p].root = SourceRoot(src.ar),
                                   ![p].warned = ~src.ar.req,
                                   ![p].asset = IF src.stype = "git"
                                                THEN PickAsset(src.assets) ELSE 0,
                                   ![p].scratch = TRUE]
             /\ vdirs' = ExtractTarget(p, src, mt)
             /\ UNCHANGED faults
       /\ UNCHANGED <<archives, current, clock, nruns>>

\* step 1 that deletes the existing version directory instead of archiving it
ArchiveOldDeletes(p) ==
    LET vname == VersionedDir(run[p].app, run[p].ver)
    IN /\ run[p].pc = "archive_old"
       /\ vdirs' = Remove(vdirs, vname)
       /\ Goto(p, "move_in")
       /\ UNCHANGED <<archives, current, clock, nruns, faults>>

\* step 1 left out: the existing version directory stays where it is
ArchiveOldSkipped(p) ==
    /\ run[p].pc = "archive_old"
    /\ Goto(p, "move_in")
    /\ UNCHANGED <<vdirs, archives, current, clock, nruns, faults>>

\* atomic_move_into_place, step 1: an existing version directory is moved to
\* archives/<app>-<version>-<ts>
ArchiveOld(p) ==
    LET vname == VersionedDir(run[p].app, run[p].ver)
        mv == ShutilMove(archives, vname, vdirs[vname],
                         ArchiveTarget(run[p].app, run[p].ver, clock))
    IN /\ run[p].pc = "archive_old"
       /\ \/ /\ vname \notin DOMAIN vdirs
             /\ Goto(p, "move_in")
             /\ UNCHANGED <<vdirs, archives, faults>>
          \/ /\ vname \in DOMAIN vdirs
             /\ mv.ok
             /\ vdirs' = Remove(vdirs, vname)
             /\ archives' = mv.dir
             /\ Goto(p, "move_in")
             /\ UNCHANGED faults
          \/ /\ vname \in DOMAIN vdirs
             /\ ~mv.ok
             /\ Abort(p, "archive_old", "shutil.Error")
             /\ UNCHANGED <<vdirs, archives, faults>>
          \/ /\ vname \in DOMAIN vdirs
             /\ Fault
             /\ Abort(p, "archive_old", "OSError")
             /\ UNCHANGED <<vdirs, archives>>
       /\ UNCHANGED <<current, clock, nruns>>

\* atomic_move_into_place, step 2: shutil.move(source_root, versioned_dir); a
\* rename, or across file systems a copy that can stop part-way
MoveIn(p) ==
    LET vname == VersionedDir(run[p].app, run[p].ver)
        mv == ShutilMove(vdirs, Basename(run[p].root), run[p].tree, vname)
        half == ShutilMove(vdirs, Basename(run[p].root),
                           [run[p].tree EXCEPT !.part = TRUE, !.mt = clock], vname)
    IN /\ run[p].pc = "move_in"
       /\ \/ /\ mv.ok
             /\ vdirs' = mv.dir
             /\ run' = [run EXCEPT ![p].pc = "unlink", ![p].scratch = FALSE]
             /\ UNCHANGED faults
          \/ /\ ~mv.ok
             /\ Abort(p, "move_in", "shutil.Error")
             /\ UNCHANGED <<vdirs, faults>>
          \/ /\ Fault
             /\ Abort(p, "move_in", "OSError")
             /\ UNCHANGED vdirs
          \/ /\ Fault
             /\ half.ok
             /\ vdirs' = half.dir
             /\ Abort(p, "move_in", "OSError")
       /\ UNCHANGED <<archives, current, clock, nruns>>

\* atomic_move_into_place, step 3a: the old pointer, dangling or not, is removed
Unlink(p) ==
    /\ run[p].pc = "unlink"
    /\ \/ /\ LinkExists(run[p].app) \/ IsSymlink(run[p].app)
          /\ current' = [current EXCEPT ![run[p].app] = NoLink]
          /\ Goto(p, "symlink")
          /\ UNCHANGED faults
       \/ /\ ~(LinkExists(run[p].app) \/ IsSymlink(run[p].app))
          /\ Goto(p, "symlink")
          /\ UNCHANGED <<current, faults>>
       \/ /\ IsSymlink(run[p].app)
          /\ Fault
          /\ Abort(p, "unlink", "OSError")
          /\ UNCHANGED current
    /\ UNCHANGED <<vdirs, archives, clock, nruns>>

\* the pointer made to reference the extracted tree where prepare_source left
\* it, tmpdir/src
SymlinkTargetScratch(p) == [d |-> "tmp", n |-> <<"src">>]

\* the path handed to symlink_to: self.versioned_dir, below install_root
SymlinkTarget(p) == RootPath(VersionedDir(run[p].app, run[p].ver))

\* atomic_move_into_place, step 3b: current_symlink.symlink_to(versioned_dir)
Symlink(p) ==
    /\ run[p].pc = "symlink"
    /\ \/ /\ ~IsSymlink(run[p].app)
          /\ current' = [current EXCEPT ![run[p].app] = SymlinkTarget(p)]
          /\ Goto(p, "post")
          /\ UNCHANGED faults
       \/ /\ IsSymlink(run[p].app)
          /\ Abort(p, "symlink", "FileExistsError")
          /\ UNCHANGED <<current, faults>>
       \/ /\ Fault
          /\ Abort(p, "symlink", "OSError")
          /\ UNCHANGED current
    /\ UNCHANGED <<vdirs, archives, clock, nruns>>

\* setup_venv_and_requirements, install_fonts, create_launcher and
\* create_desktop_entry: with setup_venv (sv) the venv is created inside the
\* version directory; any of the steps may fail
\* post-install steps that take the pointer back when one of them fails
PostInstallUndoes(p, sv) ==
    /\ run[p].pc = "post"
    /\ \/ /\ run' = [run EXCEPT ![p].pc = "prune", ![p].sv = sv]
          /\ UNCHANGED <<current, faults>>
       \/ /\ Fault
          /\ current' = [current EXCEPT ![run[p].app] = NoLink]
          /\ run' = [run EXCEPT ![p].pc = "failed", ![p].at = "post",
                                ![p].err = "CalledProcessError", ![p].sv = sv]
    /\ UNCHANGED <<vdirs, archives, clock, nruns>>

PostInstall(p, sv) ==
    LET vname == VersionedDir(run[p].app, run[p].ver)
        made == IF ~sv THEN vdirs
                ELSE IF vname \in DOMAIN vdirs
                     THEN [vdirs EXCEPT ![vname].venv = TRUE, ![vname].mt = clock]
                     ELSE Put(vdirs, vname, [NoTree EXCEPT !.venv = TRUE, !.mt = clock])
    IN /\ run[p].pc = "post"
       /\ vdirs' = made
       /\ \/ /\ run' = [run EXCEPT ![p].pc = "prune", ![p].sv = sv]
             /\ UNCHANGED faults
          \/ /\ Fault
             /\ run' = [run EXCEPT ![p].pc = "failed", ![p].at = "post",
                                   ![p].err = "CalledProcessError", ![p].sv = sv]
       /\ UNCHANGED <<archives, current, clock, nruns>>

\* clean_old_archives(keep): entries[keep:] of the newest-first listing go
CleanOldArchives(app, keep, s) ==
    IF Len(s) <= keep
    THEN archives
    ELSE [n \in (DOMAIN archives) \ PySliceFrom(s, keep) |-> archives[n]]

\* install(), last step: if args.auto_clean_archives: clean_old_archives(keep);
\* the command line's options are read here
Prune(p, args) ==
    /\ run[p].pc = "prune"
    /\ \/ /\ ~args.auto
          /\ run' = [run EXCEPT ![p].pc = "done", ![p].args = args]
          /\ UNCHANGED archives
       \/ /\ args.auto
          /\ \E s \in SortedArchives(run[p].app) :
                /\ archives' = CleanOldArchives(run[p].app, args.keep, s)
                /\ run' = [run EXCEPT ![p].pc = "done", ![p].args = args,
                                      ![p].listing = s]
    /\ UNCHANGED <<vdirs, current, clock, nruns, faults>>

\* ------------------------------------------------------------ rollback
\* the selection check without its lower bound
ValidChoiceNoLowerBound(s, choice) == ~(choice >= Len(s))

\* choice < 0 or choice >= len(archives) is refused
ValidChoice(s, choice) == ~(choice < 0 \/ choice >= Len(s))

\* rollback(), the listing and the selection
RbSelect(p, choice) ==
    /\ run[p].pc = "rb_select"
    /\ \E s \in SortedArchives(run[p].app) :
          \/ /\ s = <<>>
             /\ Abort(p, "rb_select", "No archived versions exist.")
          \/ /\ s # <<>>
             /\ ~ValidChoice(s, choice)
             /\ run' = [run EXCEPT ![p].pc = "failed", ![p].at = "rb_select",
                                   ![p].err = "Invalid selection.",
                                   ![p].listing = s, ![p].choice = choice]
          \/ /\ s # <<>>
             /\ ValidChoice(s, choice)
             /\ run' = [run EXCEPT ![p].pc = "rb_move", ![p].listing = s,
                                   ![p].choice = choice,
                                   ![p].target = PyIndex(s, choice)]
    /\ UNCHANGED <<vdirs, archives, current, clock, nruns, faults>>

\* the pointer's target removed instead of moved to archives/
MoveToFailedDiscards(curr, failed) ==
    IF curr.d = "root"
    THEN [ok |-> TRUE, vdirs |-> Remove(vdirs, curr.n), archives |-> archives]
    ELSE [ok |-> TRUE, vdirs |-> vdirs, archives |-> Remove(archives, curr.n)]

\* the store after shutil.move(str(curr), str(failed)), curr the resolved pointer
MoveToFailed(curr, failed) ==
    IF curr.d = "root"
    THEN LET mv == ShutilMove(archives, curr.n, vdirs[curr.n], failed)
         IN [ok |-> mv.ok, vdirs |-> Remove(vdirs, curr.n), archives |-> mv.dir]
    ELSE LET mv == ShutilMove(Remove(archives, curr.n), curr.n, archives[curr.n], failed)
         IN [ok |-> mv.ok, vdirs |-> vdirs, archives |-> mv.dir]

\* rollback(), step 1: a resolvable pointer's target goes to
\* archives/<name>-failed-<ts>
RbMove(p) ==
    LET app == run[p].app
        mv == MoveToFailed(current[app], FailedTarget(current[app].n, clock))
    IN /\ run[p].pc = "rb_move"
       /\ \/ /\ ~(LinkExists(app) /\ IsSymlink(app))
             /\ Goto(p, "rb_unlink")
             /\ UNCHANGED <<vdirs, archives, faults>>
          \/ /\ LinkExists(app) /\ IsSymlink(app)
             /\ mv.ok
             /\ vdirs' = mv.vdirs
             /\ archives' = mv.archives
             /\ Goto(p, "rb_unlink")
             /\ UNCHANGED faults
          \/ /\ LinkExists(app) /\ IsSymlink(app)
             /\ ~mv.ok
             /\ Abort(p, "rb_move", "shutil.Error")
             /\ UNCHANGED <<vdirs, archives, faults>>
          \/ /\ LinkExists(app) /\ IsSymlink(app)
             /\ Fault
             /\ Abort(p, "rb_move", "OSError")
             /\ UNCHANGED <<vdirs, archives>>
       /\ UNCHANGED <<current, clock, nruns>>

\* rollback(), step 2a: if self.current_symlink.exists(): unlink
RbUnlink(p) ==
    /\ run[p].pc = "rb_unlink"
    /\ \/ /\ LinkExists(run[p].app)
          /\ current' = [current EXCEPT ![run[p].app] = NoLink]
          /\ Goto(p, "rb_link")
          /\ UNCHANGED faults
       \/ /\ ~LinkExists(run[p].app)
          /\ Goto(p, "rb_link")
          /\ UNCHANGED <<current, faults>>
       \/ /\ LinkExists(run[p].app)
          /\ Fault
          /\ Abort(p, "rb_unlink", "OSError")
          /\ UNCHANGED current
    /\ UNCHANGED <<vdirs, archives, clock, nruns>>

\* rollback(), step 2b: current_symlink.symlink_to(target)
RbLink(p) ==
    /\ run[p].pc = "rb_link"
    /\ \/ /\ ~IsSymlink(run[p].app)
          /\ current' = [current EXCEPT ![run[p].app] = ArchivePath(run[p].target)]
          /\ Goto(p, "done")
          /\ UNCHANGED faults
       \/ /\ IsSymlink(run[p].app)
          /\ Abort(p, "rb_link", "FileExistsError")
          /\ UNCHANGED <<current, faults>>
       \/ /\ ~IsSymlink(run[p].app)
          /\ Fault
          /\ Abort(p, "rb_link", "OSError")
          /\ UNCHANGED current
    /\ UNCHANGED <<vdirs, archives, clock, nruns>>

\* ------------------------------------------------------------ uninstall
\* uninstall(remove_all): the whole install root, or the version directory
Uninstall(p, args) ==
    LET vname == VersionedDir(run[p].app, run[p].ver)
    IN /\ run[p].pc = "uninstall"
       /\ \/ /\ args.remove_all
             /\ vdirs' = <<>>
             /\ archives' = <<>>
             /\ current' = [a \in Apps |-> NoLink]
          \/ /\ ~args.remove_all
             /\ vdirs' = Remove(vdirs, vname)
             /\ UNCHANGED <<archives, current>>
       /\ run' = [run EXCEPT ![p].pc = "done", ![p].args = args]
       /\ UNCHANGED <<clock, nruns, faults>>

\* ------------------------------------------------------------ environment
Tick ==
    /\ clock < MaxTime
    /\ clock' = clock + 1
    /\ UNCHANGED <<vdirs, archives, current, run, nruns, faults>>

\* ------------------------------------------------------------ specification
KeepValues == {0, 1}
InstallArgs ==
    {NoArgs} \cup {[auto |-> TRUE, keep |-> k, remove_all |-> FALSE] : k \in KeepValues}
UninstallArgs ==
    {[auto |-> FALSE, keep |-> KeepDefault, remove_all |-> b] : b \in BOOLEAN}
\* the manifest's [source] table and the bytes the fetch delivers
Sources ==
    [stype : {"git", "url", "archive"},
     sha : {<<>>, Upper(Sha256sum(Good)), Sha256sum(Evil)},
     gpg : {"none", "valid", "missing", "invalid"}, bytes : {Good, Evil},
     found : {TRUE}, assets : {<<ZipAsset>>}, ar : {GoodArchive}]
StoreSources ==
    {[NoSrc EXCEPT !.stype = "git"],
     [NoSrc EXCEPT !.stype = "url", !.sha = Upper(Sha256sum(Good)), !.bytes = Evil]}
Choices == (-1)..(MaxRuns - 1)

\* one run at a time: zip archives (a fresh tree's mtime is the extraction time)
Next ==
    \/ \E p \in Main, app \in Apps, ver \in Versions : Start(p, "install", app, ver)
    \/ \E p \in Main, app \in Apps : Start(p, "rollback", app, "1.0")
    \/ \E p \in Main, app \in Apps, ver \in Versions : Start(p, "uninstall", app, ver)
    \/ \E p \in Main, src \in StoreSources : PrepareSource(p, src, clock)
    \/ \E p \in Main : ArchiveOld(p)
    \/ \E p \in Main : MoveIn(p)
    \/ \E p \in Main : Unlink(p)
    \/ \E p \in Main : Symlink(p)
    \/ \E p \in Main, sv \in BOOLEAN : PostInstall(p, sv)
    \/ \E p \in Main, args \in InstallArgs : Prune(p, args)
    \/ \E p \in Main, choice \in Choices : RbSelect(p, choice)
    \/ \E p \in Main : RbMove(p)
    \/ \E p \in Main : RbUnlink(p)
    \/ \E p \in Main : RbLink(p)
    \/ \E p \in Main, args \in UninstallArgs : Uninstall(p, args)
    \/ Tick

Spec == Init /\ [][Next]_vars

\* installs only, every manifest [source] table and both artifacts
NextVerify ==
    \/ \E p \in Main, app \in Apps : Start(p, "install", app, "1.0")
    \/ \E p \in Main, src \in Sources : PrepareSource(p, src, clock)
    \/ \E p \in Main : ArchiveOld(p)
    \/ \E p \in Main : MoveIn(p)
    \/ \E p \in Main : Unlink(p)
    \/ \E p \in Main : Symlink(p)
    \/ \E p \in Main : PostInstall(p, TRUE)
    \/ \E p \in Main : Prune(p, NoArgs)
    \/ Tick

SpecVerify == Init /\ [][NextVerify]_vars

\* the checksum verification of prepare_source over every artifact of up to
\* MaxLen bytes and every digest string in either case
HexLetters == {"a", "b", "A", "B"}
DigestStrings ==
    UNION {{<<LenDigits[n + 1]>> \o w : w \in [1..n -> HexLetters]} : n \in 0..MaxLen}
ChecksumSources ==
    [stype : {"url"}, sha : DigestStrings, gpg : {"none"}, bytes : Files,
     found : {TRUE}, assets : {<<ZipAsset>>}, ar : {GoodArchive}]

\* one run for each artifact and digest
NextChecksum ==
    \/ \E p \in Main : nruns = 0 /\ Start(p, "install", <<"foo">>, "1.0")
    \/ \E p \in Main, src \in ChecksumSources : PrepareSource(p, src, clock)

SpecChecksum == Init /\ [][NextChecksum]_vars

\* installs from every source type over archives of every shape: any format,
\* top-level files and directories, with and without the required directories
TopEntries(n) ==
    CASE n = "app" -> {File} \cup {Dir(k) : k \in SUBSET {"src", "data"}}
      [] n = "__MACOSX" -> {Dir({})}
      [] OTHER -> {File, Dir({})}
Tops ==
    UNION {{f \in [S -> UNION {TopEntries(n) : n \in S}] :
                \A n \in S : f[n] \in TopEntries(n)} : S \in SUBSET TopNames}
Archives ==
    [fmt : {"zip", "tar"}, top : Tops, req : BOOLEAN]
        \cup {[fmt |-> "none", top |-> <<>>, req |-> TRUE]}
ExtractSources ==
    {[NoSrc EXCEPT !.stype = t, !.ar = a] : t \in {"git", "archive"}, a \in Archives}
        \cup {[NoSrc EXCEPT !.stype = t, !.found = FALSE] : t \in {"url", "archive"}}
        \cup {[NoSrc EXCEPT !.stype = "git", !.assets = <<>>]}
        \cup {[NoSrc EXCEPT !.stype = "svn"]}

NextExtract ==
    \/ \E p \in Main : Start(p, "install", <<"foo">>, "1.0")
    \/ \E p \in Main, src \in ExtractSources \cup StoreSources :
          PrepareSource(p, src, clock)
    \/ \E p \in Main : ArchiveOld(p)
    \/ \E p \in Main : MoveIn(p)
    \/ \E p \in Main : Unlink(p)
    \/ \E p \in Main : Symlink(p)
    \/ \E p \in Main : PostInstall(p, FALSE)
    \/ \E p \in Main : Prune(p, NoArgs)

SpecExtract == Init /\ [][NextExtract]_vars

\* an environment in which no system call fails
InitReliable ==
    /\ vdirs = <<>>
    /\ archives = <<>>
    /\ current = [a \in Apps |-> NoLink]
    /\ clock = 0
    /\ run = [p \in Procs |-> IdleRun]
    /\ nruns = 0
    /\ faults = MaxFaults

SpecReliable == InitReliable /\ [][Next]_vars

\* installs from the latest release over every list of up to MaxAssets assets
AssetNames ==
    {ZipAsset, <<"app", "ZIP">>, <<"app", "tar", "gz">>, <<"app", "TGZ">>,
     <<"app", "tar", "xz">>, <<"app", "tar", "bz2">>, <<"notes", "txt">>,
     <<"zip">>, <<"app", "zip", "sha256">>}
AssetLists == UNION {[1..n -> AssetNames] : n \in 0..MaxAssets}
AssetSources == {[NoSrc EXCEPT !.stype = "git", !.assets = a] : a \in AssetLists}

NextAssets ==
    \/ \E p \in Main : nruns = 0 /\ Start(p, "install", <<"foo">>, "1.0")
    \/ \E p \in Main, src \in AssetSources : PrepareSource(p, src, clock)
    \/ \E p \in Main : ArchiveOld(p)
    \/ \E p \in Main : MoveIn(p)
    \/ \E p \in Main : Unlink(p)
    \/ \E p \in Main : Symlink(p)
    \/ \E p \in Main : PostInstall(p, FALSE)
    \/ \E p \in Main : Prune(p, NoArgs)

SpecAssets == InitReliable /\ [][NextAssets]_vars

\* one install with the install root chosen in each of the three ways
NextRoot ==
    \/ \E p \in Main, opt \in BOOLEAN, yes \in BOOLEAN, custom \in BOOLEAN :
          nruns = 0 /\ Launch(p, "install", <<"foo">>, "1.0", opt, yes, custom)
    \/ \E p \in Main, src \in StoreSources : PrepareSource(p, src, clock)
    \/ \E p \in Main : ArchiveOld(p)
    \/ \E p \in Main : MoveIn(p)
    \/ \E p \in Main : Unlink(p)
    \/ \E p \in Main : Symlink(p)
    \/ \E p \in Main, sv \in BOOLEAN : PostInstall(p, sv)
    \/ \E p \in Main, args \in InstallArgs : Prune(p, args)
    \/ Tick

SpecRoot == Init /\ [][NextRoot]_vars

\* two processes, each installing foo 1.0 once, their steps interleaved in
\* any order
NextConcurrent ==
    \/ \E p \in Procs :
          run[p].pc = "idle" /\ Launch(p, "install", <<"foo">>, "1.0", FALSE, TRUE, FALSE)
    \/ \E p \in Procs, src \in StoreSources : PrepareSource(p, src, clock)
    \/ \E p \in Procs : ArchiveOld(p)
    \/ \E p \in Procs : MoveIn(p)
    \/ \E p \in Procs : Unlink(p)
    \/ \E p \in Procs : Symlink(p)
    \/ \E p \in Procs, sv \in BOOLEAN : PostInstall(p, sv)
    \/ \E p \in Procs : Prune(p, NoArgs)
    \/ Tick

SpecConcurrent == InitReliable /\ [][NextConcurrent]_vars

\* ------------------------------------------------------------ properties
Quiescent == \A p \in Procs : ~Active(p)
Ids(dir) == {x.c : x \in DirContents(dir)}
StoreIds == Ids(vdirs) \cup Ids(archives)
StoreContents == DirContents(vdirs) \cup DirContents(archives)
PreContents(p) == DirContents(run[p].pre.vdirs) \cup DirContents(run[p].pre.archives)
PreLink(p) == run[p].pre.current[run[p].app]
PreResolves(p) ==
    \/ PreLink(p).d = "root" /\ PreLink(p).n \in DOMAIN run[p].pre.vdirs
    \/ PreLink(p).d = "archives" /\ PreLink(p).n \in DOMAIN run[p].pre.archives
PreTree(p) ==
    IF PreLink(p).d = "root" THEN run[p].pre.vdirs[PreLink(p).n]
    ELSE run[p].pre.archives[PreLink(p).n]
VName(p) == VersionedDir(run[p].app, run[p].ver)
HasToken(name, tok) == \E i \in 1..Len(name) : name[i] = tok

\* C1: between runs, the current pointer is absent or references a directory
\* that exists (the pointer never dangles)
C1_PointerNeverDangles ==
    Quiescent => \A app \in Apps : IsSymlink(app) => PathExists(current[app])

\* C2: an install that fails while archiving the old directory or while moving
\* the new tree in leaves the pointer that existed before the run, and the
\* directory it targets, as they were
C2_FailureBeforePointedKeepsCurrent ==
    \A p \in Procs :
        (/\ run[p].mode = "install"
         /\ run[p].pc = "failed"
         /\ run[p].at \in {"archive_old", "move_in"}
         /\ PreLink(p) # NoLink
         /\ PreResolves(p))
        => /\ current[run[p].app] = PreLink(p)
           /\ PathExists(PreLink(p))
           /\ TreeAt(PreLink(p)) = PreTree(p)

\* C3: install A, install B, roll back with A selected: the run ends with the
\* pointer on a directory holding A's contents and B's directory under
\* archives/ with a -failed- marker
C3_RollbackRoundTrip ==
    \A p \in Procs :
        (/\ run[p].mode = "rollback"
         /\ Terminated(p)
         /\ run[p].c = 3
         /\ PreLink(p) # NoLink
         /\ PreResolves(p)
         /\ Contents(PreTree(p)) \subseteq {[c |-> 2, venv |-> v, part |-> FALSE] : v \in BOOLEAN}
         /\ run[p].target \in DOMAIN run[p].pre.archives
         /\ run[p].pre.archives[run[p].target].c = 1
         /\ ~run[p].pre.archives[run[p].target].part)
        => /\ run[p].pc = "done"
           /\ LinkExists(run[p].app)
           /\ TreeAt(current[run[p].app]) = run[p].pre.archives[run[p].target]
           /\ \E n \in DOMAIN archives :
                 HasToken(n, "failed") /\ archives[n] = PreTree(p)

Deployed(p) == run[p].pc \in {"unlink", "symlink", "post", "prune", "done"}

\* C5: when the declared digest differs from the artifact's, whatever the
\* source type, the run never gets to move a tree, and no tree from that
\* artifact is under installRoot
C5_CorruptArtifactNeverDeployed ==
    \A p \in Procs :
        (run[p].mode = "install" /\ ShaMismatch(run[p].src))
        => /\ ~Deployed(p)
           /\ run[p].c \notin StoreIds

\* C6: a required signature that is missing or invalid is fatal: the run
\* never gets to move a tree, and no tree from that artifact is under
\* installRoot
C6_BadSignatureIsFatal ==
    \A p \in Procs :
        (run[p].mode = "install" /\ run[p].src.gpg \in {"missing", "invalid"})
        => /\ ~Deployed(p)
           /\ run[p].c \notin StoreIds

RECURSIVE Copies(_, _)
\* how many directories of the tree t, at any depth, are install c's tree
Copies(t, c) ==
    LET RECURSIVE Sum(_)
        Sum(ks) == IF ks = {} THEN 0
                   ELSE LET k == CHOOSE x \in ks : TRUE
                        IN Copies(t.kids[k], c) + Sum(ks \ {k})
    IN (IF t.c = c THEN 1 ELSE 0) + Sum(DOMAIN t.kids)
RECURSIVE CopiesIn(_, _)
CopiesIn(dir, c) ==
    IF DOMAIN dir = {} THEN 0
    ELSE LET k == CHOOSE x \in DOMAIN dir : TRUE
         IN Copies(dir[k], c) + CopiesIn(Remove(dir, k), c)

\* the version directory the run found was left by a complete install
Reinstall(p) ==
    /\ run[p].mode = "install"
    /\ run[p].pc = "done"
    /\ VName(p) \in DOMAIN run[p].pre.vdirs
    /\ run[p].pre.vdirs[VName(p)].c > 0
    /\ ~run[p].pre.vdirs[VName(p)].part

\* C7 as stated, for two installs during which no system call failed:
\* installing a version over itself leaves exactly one archived copy of the
\* first install, and the pointer on the second
C7_ExactlyOneArchivedCopy ==
    \A p \in Procs :
        (Reinstall(p) /\ faults = 0)
        => /\ CopiesIn(archives, run[p].pre.vdirs[VName(p)].c) = 1
           /\ current[run[p].app] = RootPath(VName(p))
           /\ VName(p) \in DOMAIN vdirs
           /\ vdirs[VName(p)].c = run[p].c

\* C7, amended: one archived copy, or none when the run's own prune step
\* had more entries than --keep to choose from; never more than one
C7_ReinstallArchivesFirst ==
    \A p \in Procs :
        Reinstall(p)
        => /\ \/ CopiesIn(archives, run[p].pre.vdirs[VName(p)].c) = 1
              \/ /\ CopiesIn(archives, run[p].pre.vdirs[VName(p)].c) = 0
                 /\ run[p].args.auto
                 /\ Len(run[p].listing) > run[p].args.keep
           /\ CopiesIn(vdirs, run[p].pre.vdirs[VName(p)].c) = 0
           /\ current[run[p].app] = RootPath(VName(p))
           /\ VName(p) \in DOMAIN vdirs
           /\ vdirs[VName(p)].c = run[p].c

\* a re-install that did not prune has completed
C7_Witness ==
    \E p \in Procs :
        /\ Reinstall(p)
        /\ ~run[p].args.auto
        /\ CopiesIn(archives, run[p].pre.vdirs[VName(p)].c) = 1

PreMatching(p) == {n \in DOMAIN run[p].pre.archives : GlobMatch(run[p].app, n)}
\* the rollback found no archive, or was given an index outside 0..len-1
BadSelection(p) ==
    \/ PreMatching(p) = {}
    \/ run[p].choice < 0
    \/ run[p].choice >= Cardinality(PreMatching(p))

C9_RollbackKeepsData ==
    \A p \in Procs :
        run[p].mode = "rollback"
        => /\ StoreContents = PreContents(p)
           /\ \A x \in PreContents(p) :
                 CopiesIn(vdirs, x.c) + CopiesIn(archives, x.c)
                    = CopiesIn(run[p].pre.vdirs, x.c) + CopiesIn(run[p].pre.archives, x.c)

\* a rollback has relabelled the pointer's target as failed
C9_Witness ==
    \E p \in Procs :
        /\ run[p].mode = "rollback"
        /\ Terminated(p)
        /\ \E n \in DOMAIN archives :
              HasToken(n, "failed") /\ n \notin DOMAIN run[p].pre.archives

\* C10: when a run has terminated, its scratch directory no longer exists
C10_ScratchRemovedAtExit ==
    \A p \in Procs : Terminated(p) => ~run[p].tmpdir

\* C11: a step that leaves the pointer where it is, on a directory that exists
\* before and after the step, leaves that directory's tree as it was: the live
\* directory is renamed or re-pointed to as a whole, never edited
C11_LiveDirectoryNeverMutated ==
    [][\A app \in Apps :
          (/\ LinkExists(app)
           /\ current'[app] = current[app]
           /\ PathExists(current[app])')
          => TreeAt(current[app])' = TreeAt(current[app])]_vars

\* C12: the pointer, when present, references a version directory of
\* installRoot or an entry of installRoot/archives that belongs to its app,
\* never a path in a scratch directory
C12_PointerInsideInstallRoot ==
    \A app \in Apps :
        IsSymlink(app)
        => /\ current[app].d \in {"root", "archives"}
           /\ GlobMatch(app, current[app].n)

\* a rollback has pointed at an entry of archives/
C12_Witness ==
    \E p \in Procs :
        /\ run[p].mode = "rollback"
        /\ run[p].pc = "done"
        /\ current[run[p].app] = ArchivePath(run[p].target)

\* C13: a step other than the prune step of an install keeps every entry of
\* archives/ under its name, and the prune step removes only entries that are
\* no newer than each entry of the app it keeps
C13_ArchivesAppendOnly ==
    [][/\ (\A p \in Procs : run[p].pc # "prune")
            => \A n \in DOMAIN archives : n \in DOMAIN archives'
       /\ \A p \in Procs :
             run[p].pc = "prune"
             => \A n \in (DOMAIN archives) \ (DOMAIN archives') :
                   \A m \in DOMAIN archives' :
                       GlobMatch(run[p].app, m) => archives[n].mt <= archives[m].mt
      ]_vars

\* the entries of archives/ that are retired directories of the app:
\* <app>-<version>-<ts>, with or without -failed-<ts> markers
OwnArchives(app, dir) ==
    {n \in DOMAIN dir : GlobMatch(app, n) /\ n[Len(app) + 1] \in Versions}

\* C14: a prune step with keep = N over M archived versions of the app leaves,
\* when M > N, exactly N of them, none older than one it removed; when
\* M <= N it removes nothing
C14_PruneKeepsNewest ==
    [][\A p \in Procs :
          (run[p].pc = "prune" /\ run'[p].pc = "done" /\ run'[p].args.auto)
          => LET N == run'[p].args.keep
                 own == OwnArchives(run[p].app, archives)
                 kept == OwnArchives(run[p].app, archives')
             IN IF Cardinality(own) <= N
                THEN archives' = archives
                ELSE /\ Cardinality(kept) = N
                     /\ kept \subseteq own
                     /\ \A k \in kept : \A r \in own \ kept :
                           archives[k].mt >= archives[r].mt
      ]_vars

\* two hex strings that are equal up to the case of their letters
SameHex(a, b) ==
    /\ Len(a) = Len(b)
    /\ \A i \in 1..Len(a) :
          \/ a[i] = b[i]
          \/ {a[i], b[i]} \in {{"a", "A"}, {"b", "B"}}
\* the file g is the file f with one byte changed
OneByteChanged(f, g) ==
    /\ Len(f) = Len(g)
    /\ Cardinality({i \in 1..Len(f) : f[i] # g[i]}) = 1
\* the run has been through the checksum verification of a declared digest
Verified(p) ==
    /\ run[p].mode = "install"
    /\ run[p].src.stype \in {"url", "archive"}
    /\ run[p].src.sha # <<>>
    /\ \/ run[p].pc = "archive_old"
       \/ run[p].pc = "failed" /\ run[p].at = "verify"

\* C15: the verification passes exactly when the digest of the whole artifact
\* equals the expected digest up to the case of the hex letters, and an
\* artifact that passes fails once any one of its bytes is changed
C15_ChecksumVerification ==
    \A p \in Procs :
        Verified(p)
        => /\ (run[p].pc = "archive_old")
                 <=> SameHex(HexDigest(run[p].src.bytes), run[p].src.sha)
           /\ (run[p].pc = "archive_old")
                 => \A g \in Files :
                       OneByteChanged(run[p].src.bytes, g)
                       => ShaMismatch([run[p].src EXCEPT !.bytes = g])

\* an artifact read in more than one chunk has passed against a digest
\* written with upper-case letters
C15_Witness ==
    \E p \in Procs :
        /\ Verified(p)
        /\ run[p].pc = "archive_old"
        /\ Len(run[p].src.bytes) > ChunkSize
        /\ run[p].src.sha # Lower(run[p].src.sha)

RootChosen(p) ==
    /\ run[p].mode = "install"
    /\ run[p].root # <<>>

\* C18 as stated: the single top-level entry that extraction produced, if it
\* is a directory, is the root; with several entries, or a single file, the
\* extraction directory is
C18_SingleTopLevelEntry ==
    \A p \in Procs :
        RootChosen(p)
        => LET top == run[p].src.ar.top
           IN /\ \A n \in DOMAIN top :
                    (DOMAIN top = {n} /\ top[n].dir) => run[p].root = ExtractDir \o <<n>>
              /\ (Cardinality(DOMAIN top) # 1 \/ \E n \in DOMAIN top : ~top[n].dir)
                    => run[p].root = ExtractDir

\* C18, amended: the same with the top-level entries other than __MACOSX
C18_RootNormalization ==
    \A p \in Procs :
        RootChosen(p)
        => LET top == run[p].src.ar.top
               real == (DOMAIN top) \ {"__MACOSX"}
           IN /\ \A n \in real :
                    (real = {n} /\ top[n].dir) => run[p].root = ExtractDir \o <<n>>
              /\ (Cardinality(real) # 1 \/ \E n \in real : ~top[n].dir)
                    => run[p].root = ExtractDir

\* an archive with a payload directory beside __MACOSX has been given its
\* payload directory as root
C18_Witness ==
    \E p \in Procs :
        /\ RootChosen(p)
        /\ DOMAIN run[p].src.ar.top = {"app", "__MACOSX"}
        /\ run[p].root = ExtractDir \o <<"app">>

\* C17: a run whose manifest lacks name, version or source ends with the
\* config error and has made no scratch directory, install root, archives
\* directory or download, and changed nothing in the store
C17_ConfigErrorBeforeAnyAction ==
    \A p \in Procs :
        (/\ run[p].pc # "idle"
         /\ \E i \in 1..Len(RequiredKeys) : RequiredKeys[i] \notin run[p].keys)
        => /\ run[p].pc = "failed"
           /\ run[p].at = "config"
           /\ run[p].err = "Missing required config key"
           /\ ~run[p].tmpdir
           /\ run[p].ensured = {}
           /\ run[p].src = NoSrc
           /\ run[p].tree = NoTree
           /\ Snapshot = run[p].pre

\* a run against an existing installation had a manifest with no source
C17_Witness ==
    \E p \in Procs :
        /\ run[p].at = "config"
        /\ run[p].keys = {"name", "version"}
        /\ \E app \in Apps : run[p].pre.current[app] # NoLink

\* C19: an install that failed in step 1 (archiving the existing version
\* directory) or in step 2 (moving the extracted tree in) still has its tree
\* in the scratch directory and has left the version directories, archives/
\* and the pointers as the run found them
C19_FailedMoveTouchesNothing ==
    \A p \in Procs :
        (/\ run[p].mode = "install"
         /\ run[p].pc = "failed"
         /\ run[p].at \in {"archive_old", "move_in"})
        => /\ run[p].scratch
           /\ Snapshot = run[p].pre

\* C20: an install whose pointer swap failed does not end without a pointer
\* unless it ends with the DeploymentInconsistent error, its retries spent
C20_PointerSwapRetried ==
    \A p \in Procs :
        (/\ run[p].mode = "install"
         /\ run[p].pc = "failed"
         /\ run[p].at \in {"unlink", "symlink"}
         /\ ~IsSymlink(run[p].app))
        => run[p].err = "DeploymentInconsistent"

\* C21: a rollback that was given a valid index while the app had a pointer
\* ends done, with the pointer on the selected entry of archives/, that entry
\* where and as it was, and the directory the pointer resolved to before under
\* archives/ with a failed marker
C21_RollbackRepointsToSelection ==
    \A p \in Procs :
        (/\ run[p].mode = "rollback"
         /\ Terminated(p)
         /\ run[p].target # <<>>
         /\ PreLink(p) # NoLink)
        => /\ run[p].pc = "done"
           /\ current[run[p].app] = ArchivePath(run[p].target)
           /\ run[p].target \in DOMAIN archives
           /\ archives[run[p].target] = run[p].pre.archives[run[p].target]
           /\ PreResolves(p)
                 => \E n \in DOMAIN archives :
                       /\ HasToken(n, "failed")
                       /\ n \notin DOMAIN run[p].pre.archives
                       /\ archives[n] = PreTree(p)

\* the install found its version directory in place and is past step 1
PastArchiving(p) ==
    /\ run[p].mode = "install"
    /\ VName(p) \in DOMAIN run[p].pre.vdirs
    /\ run[p].pc \in {"move_in", "unlink", "symlink", "post", "prune"}

\* C22: once a re-install is past step 1, the directory it found is a new
\* entry of archives/ named <app>-<version>-<ts>, as it was; the path is
\* vacant until step 2, and after step 2 holds the new tree and nothing else
C22_ReinstallArchivesThenInstalls ==
    \A p \in Procs :
        PastArchiving(p)
        => /\ \E n \in (DOMAIN archives) \ (DOMAIN run[p].pre.archives) :
                 /\ Len(n) = Len(VName(p)) + 1
                 /\ SubSeq(n, 1, Len(VName(p))) = VName(p)
                 /\ archives[n] = run[p].pre.vdirs[VName(p)]
           /\ run[p].pc = "move_in" => VName(p) \notin DOMAIN vdirs
           /\ run[p].pc # "move_in"
                 => /\ VName(p) \in DOMAIN vdirs
                    /\ vdirs[VName(p)].c = run[p].c
                    /\ vdirs[VName(p)].kids = NoKids

\* C23: the prune step of an install leaves every entry of archives/ that
\* belongs to another app where it is
C23_PruneLeavesOtherApps ==
    [][\A p \in Procs :
          (run[p].pc = "prune" /\ run'[p].pc = "done")
          => \A n \in (DOMAIN archives) \ OwnArchives(run[p].app, archives) :
                /\ n \in DOMAIN archives'
                /\ archives'[n] = archives[n]
      ]_vars

\* the root of the run's extracted tree holds a directory named r
RootHasDir(p, r) ==
    LET ar == run[p].src.ar
        root == run[p].root
    IN IF root = ExtractDir THEN r \in DOMAIN ar.top /\ ar.top[r].dir
       ELSE r \in ar.top[root[Len(root)]].kids
Lacking(p) == {i \in 1..Len(RequiredDirs) : ~RootHasDir(p, RequiredDirs[i])}

\* C24: a root that lacks the directory src or data stops the run with the
\* invalid-layout error naming a missing directory, its tree never under
\* installRoot; a root with both passes, with no more than a warning when
\* requirements.txt is missing
C24_LayoutValidation ==
    \A p \in Procs :
        RootChosen(p)
        => IF Lacking(p) # {}
           THEN /\ run[p].pc = "failed"
                /\ run[p].at = "validate"
                /\ \E i \in Lacking(p) : run[p].err = InvalidLayout(RequiredDirs[i])
                /\ run[p].tree = NoTree
                /\ run[p].c \notin StoreIds
           ELSE /\ ~(run[p].pc = "failed" /\ run[p].at = "validate")
                /\ run[p].warned = ~run[p].src.ar.req

\* an archive name of a format the extractor opens: zip, or tar with gzip,
\* bzip2 or xz
Supported(name) ==
    \E e \in ArchiveExtensions \cup {<<"tar", "bz2">>} : EndsWith(LowerName(name), e)
Fetched(p) ==
    /\ run[p].mode = "install"
    /\ run[p].src.stype = "git"
    /\ run[p].pc \notin {"idle", "prepare"}

\* C25: a fetch from the latest release takes the first asset, in listing
\* order, whose name ends in a supported archive extension (zip, tar with
\* gzip, bzip2 or xz), and fails for want of an asset exactly when no asset
\* has such a name
C25_FirstSupportedAsset ==
    \A p \in Procs :
        Fetched(p)
        => LET assets == run[p].src.assets
               M == {i \in 1..Len(assets) : Supported(assets[i])}
               NoAsset == /\ run[p].pc = "failed"
                          /\ run[p].at = "fetch"
                          /\ run[p].err \in
                                {"No assets found in the latest GitHub release.",
                                 "No installable archive asset found in the latest release."}
           IN IF M = {} THEN NoAsset
              ELSE /\ ~NoAsset
                   /\ run[p].asset \in M
                   /\ \A j \in M : run[p].asset <= j

\* what the stages before deployment have to establish for a source: an
\* artifact was fetched, it matches the configured digest and carries no
\* missing or invalid signature, and the extracted root has the layout
FetchSucceeded(src) ==
    IF src.stype = "git" THEN PickAsset(src.assets) # 0 ELSE src.found
VerifySucceeded(src) == ~ShaMismatch(src) /\ src.gpg \notin {"missing", "invalid"}
ValidateSucceeded(src) ==
    /\ src.ar.fmt \in {"zip", "tar"}
    /\ ValidateAppStructure(src.ar, SourceRoot(src.ar)) = ""

\* C26: an install run goes through fetch, verify, extract with validation,
\* deploy, post-install and prune in this order: deployment starts only after
\* fetch, verification and validation succeeded, the post-install steps start
\* only once the pointer references the new version directory, and an install
\* removes archives only in its prune stage and only when auto-clean is set
C26_StageOrder ==
    [][\A p \in Procs :
          run'[p].mode = "install"
          => /\ (run'[p].pc = "archive_old" /\ run[p].pc # "archive_old")
                => /\ run[p].pc = "prepare"
                   /\ FetchSucceeded(run'[p].src)
                   /\ VerifySucceeded(run'[p].src)
                   /\ ValidateSucceeded(run'[p].src)
             /\ (run'[p].pc = "post" /\ run[p].pc # "post")
                => /\ run[p].pc = "symlink"
                   /\ current'[run[p].app] = RootPath(VName(p))
             /\ (run'[p].pc = "prune" /\ run[p].pc # "prune") => run[p].pc = "post"
             /\ (DOMAIN archives) \ (DOMAIN archives') # {}
                => run[p].pc = "prune" /\ run'[p].args.auto
      ]_vars

\* step 1 of an install or of a rollback has moved a directory to archives/
ArchivingStep(p) ==
    /\ \/ run[p].pc = "archive_old" /\ run'[p].pc = "move_in"
       \/ run[p].pc = "rb_move" /\ run'[p].pc = "rb_unlink"
    /\ archives' # archives

\* C27: every archiving step, of a re-install or of a rollback, adds a
\* top-level entry to archives/ under a name no entry had before, also when
\* the clock has not advanced since the last one, and leaves the inside of
\* every existing entry as it was
C27_ArchiveNamesAreFresh ==
    [][\A p \in Procs :
          ArchivingStep(p)
          => /\ (DOMAIN archives') \ (DOMAIN archives) # {}
             /\ \A m \in (DOMAIN archives) \cap (DOMAIN archives') :
                   archives'[m].kids = archives[m].kids
      ]_vars

\* the install has started to deploy
DeploymentStarted(p) ==
    /\ run[p].mode = "install"
    /\ \/ run[p].pc \in {"archive_old", "move_in", "unlink", "symlink", "post",
                          "prune", "done"}
       \/ run[p].pc = "failed" /\ run[p].at \in {"archive_old", "move_in", "unlink",
                                                  "symlink", "post"}

\* C28: the version directory, the current pointer and the archives
\* directory an install deploys to lie under the install root in effect when
\* deployment starts, be it the manifest's default, the --install-root option
\* or the path typed at the prompt
C28_PathsUnderInstallRoot ==
    \A p \in Procs :
        DeploymentStarted(p) => run[p].paths = PathsUnder(run[p].install_root)

\* an install stopped by a failing post-install step
PostFailed(p) ==
    /\ run[p].mode = "install"
    /\ run[p].pc = "failed"
    /\ run[p].at = "post"

\* C29: when a post-install step fails, the run stops with the pointer on the
\* version directory holding the tree it has just installed, the tree it
\* archived (if it found one) and every earlier archive entry still in
\* archives/: nothing is pruned and nothing is rolled back
C29_PostInstallFailureKeepsDeployment ==
    \A p \in Procs :
        PostFailed(p)
        => /\ current[run[p].app] = RootPath(VName(p))
           /\ VName(p) \in DOMAIN vdirs
           /\ vdirs[VName(p)].c = run[p].c
           /\ VName(p) \in DOMAIN run[p].pre.vdirs
                 => Contents(run[p].pre.vdirs[VName(p)]) \subseteq DirContents(archives)
           /\ \A n \in DOMAIN run[p].pre.archives :
                 /\ n \in DOMAIN archives
                 /\ Contents(run[p].pre.archives[n]) \subseteq Contents(archives[n])

C29_Witness ==
    \E p \in Procs :
        /\ PostFailed(p)
        /\ VName(p) \in DOMAIN run[p].pre.vdirs
        /\ run[p].pre.vdirs[VName(p)].c > 0
        /\ DOMAIN run[p].pre.archives # {}
        /\ run[p].pre.current[run[p].app] # NoLink

\* both processes have run an install of the same version to its end, each
\* with a tree to deploy
BothEnded ==
    /\ \A p \in Procs : DeploymentStarted(p) /\ run[p].pc \in {"done", "failed"}
    /\ \A p, q \in Procs : VName(p) = VName(q)
\* the pointer is on the version directory, which holds the tree of run p
\* and nothing else
HoldsTreeOf(p) ==
    /\ current[run[p].app] = RootPath(VName(p))
    /\ VName(p) \in DOMAIN vdirs
    /\ vdirs[VName(p)].c = run[p].c
    /\ ~vdirs[VName(p)].part
    /\ vdirs[VName(p)].kids = NoKids

=============================================================================
